---- MODULE Spec2Model ----
(***************************************************************************)
(* Audit log list endpoint: the baseline LIMIT/OFFSET service              *)
(* (audit_log_service.py), the in-memory indexed service                   *)
(* (audit_log_service_enhanced.py) and the storage-backed cursor service   *)
(* (enhanced_audit_log_service.py).                                        *)
(*                                                                         *)
(* Spec     : one caller; the harness initialises the services and then    *)
(*            issues requests, each handler run to completion.             *)
(* SpecConc : worker threads interleaved statement by statement through    *)
(*            init(), get_service() and the three request handlers, over   *)
(*            intact and damaged storage, with the connections they hold.  *)
(* SpecPool : worker threads, one more than _pool_max_size, asking the     *)
(*            cursor service's pool for their connections.                 *)
(***************************************************************************)
EXTENDS Integers, Sequences, FiniteSets, TLC

\* ------------------------------------------------------------------ bounds
MaxRows == 3
MaxTs == 2
MaxPage == 3
MaxPageSize == 2
NumThreads == 2

\* ------------------------------------------------------------- value sets
Timestamps == 1..MaxTs
Actors == {1, 2}
Actions == {"UPDATE", "CREATE"}
FilterActors == {1}
FilterActions == {"UPDATE"}
Threads == 1..NumThreads

Min(a, b) == IF a < b THEN a ELSE b
Max(a, b) == IF a > b THEN a ELSE b

\* Optional[T]: <<>> is None, <<v>> is the value v.
None == <<>>
Some(v) == <<v>>

\* --------------------------------------------------- payload file encoding
\* The payload written for the row with identifier i; only the length of its
\* "note" varies here.
PayloadOf(i) == [note |-> 1 + (i % 2)]

\* json.dumps(payload).encode("utf-8") + b"\n"
Encode(p) == <<"{">> \o [k \in 1..p.note |-> "x"] \o <<"}", "nl">>

RECURSIVE StripTrailing(_)
StripTrailing(bytes) ==
    IF bytes # <<>> /\ bytes[Len(bytes)] = "nl"
    THEN StripTrailing(SubSeq(bytes, 1, Len(bytes) - 1))
    ELSE bytes

DecodeError == [error |-> "JSONDecodeError"]

\* json.loads(bytes): trailing whitespace is skipped, anything malformed raises.
Decode(bytes) ==
    LET s == StripTrailing(bytes)
    IN  IF /\ Len(s) >= 3
           /\ s[1] = "{"
           /\ s[Len(s)] = "}"
           /\ \A k \in 2..(Len(s) - 1) : s[k] = "x"
        THEN [note |-> Len(s) - 2]
        ELSE DecodeError

\* f.seek(offset); f.read(length): a read past the end of the file is short.
SeekRead(file, offset, length) ==
    SubSeq(file, offset + 1, Min(offset + length, Len(file)))

\* _read_payload(offset, length)
ReadPayload(file, offset, length) == Decode(SeekRead(file, offset, length))

\* ------------------------------------------------------------ the dataset
RECURSIVE OffsetOf(_)
OffsetOf(i) == IF i <= 1 THEN 0 ELSE OffsetOf(i - 1) + Len(Encode(PayloadOf(i - 1)))

\* One row of audit_events as the seeding loop inserts it: ids are assigned
\* 1, 2, ... in insertion order and the locator points at the row's line.
SeedRow(i, a) ==
    [id |-> i, created_at |-> a[1], actor_id |-> a[2], action |-> a[3],
     resource_type |-> IF i % 2 = 1 THEN "ORDER" ELSE "USER",
     resource_id |-> i,
     payload_offset |-> OffsetOf(i),
     payload_len |-> Len(Encode(PayloadOf(i)))]

RowAttrs == Timestamps \X Actors \X Actions

TablesOfSize(n) == {[i \in 1..n |-> SeedRow(i, attrs[i])] : attrs \in [1..n -> RowAttrs]}

Tables == UNION {TablesOfSize(n) : n \in 0..MaxRows}

RECURSIVE FileOf(_)
FileOf(n) == IF n = 0 THEN <<>> ELSE FileOf(n - 1) \o Encode(PayloadOf(n))

RowsOf(tbl) == {tbl[i] : i \in 1..Len(tbl)}

\* ---------------------------------------------------------------- queries
Queries ==
    [from_ts : Timestamps, to_ts : Timestamps,
     actor_id : {None} \cup {Some(a) : a \in FilterActors},
     action : {None} \cup {Some(a) : a \in FilterActions},
     page : 0..MaxPage, page_size : 0..MaxPageSize]

ValidQuery(q) == q.page >= 1 /\ q.page_size >= 1

\* ------------------------------------------------------------ SQL pieces
\* Mutant: ties on created_at broken by id ascending.
BeforeIdAsc(r1, r2) ==
    \/ r1.created_at > r2.created_at
    \/ r1.created_at = r2.created_at /\ r1.id < r2.id

\* ORDER BY created_at DESC, id DESC
Before(r1, r2) ==
    \/ r1.created_at > r2.created_at
    \/ r1.created_at = r2.created_at /\ r1.id > r2.id

RECURSIVE OrderBy(_)
OrderBy(S) ==
    IF S = {} THEN <<>>
    ELSE LET first == CHOOSE r \in S : \A s \in S \ {r} : Before(r, s)
         IN  <<first>> \o OrderBy(S \ {first})

\* Mutant: the action filter is dropped from the WHERE clause.
WhereIgnoresAction(r, q) ==
    /\ r.created_at >= q.from_ts
    /\ r.created_at <= q.to_ts
    /\ (q.actor_id = None \/ Some(r.actor_id) = q.actor_id)

\* WHERE created_at BETWEEN ? AND ? AND (? IS NULL OR actor_id = ?)
\*   AND (? IS NULL OR action = ?)
Where(r, q) ==
    /\ r.created_at >= q.from_ts
    /\ r.created_at <= q.to_ts
    /\ (q.actor_id = None \/ Some(r.actor_id) = q.actor_id)
    /\ (q.action = None \/ Some(r.action) = q.action)

\* LIMIT lim OFFSET off as SQLite evaluates it: a negative LIMIT is no limit,
\* a negative OFFSET is zero.
LimitOffset(rows, lim, off) ==
    LET o == Max(off, 0)
        last == IF lim < 0 THEN Len(rows) ELSE Min(Len(rows), o + lim)
    IN  SubSeq(rows, o + 1, last)

Select(tbl, q) == OrderBy({r \in RowsOf(tbl) : Where(r, q)})

\* The event dictionary a handler appends for one fetched row.
Event(r, payload) ==
    [id |-> r.id, created_at |-> r.created_at, actor_id |-> r.actor_id,
     action |-> r.action, resource_type |-> r.resource_type,
     resource_id |-> r.resource_id, payload |-> payload]

\* rows -> events: one _read_payload per row, in order.  A payload that does
\* not decode raises out of the handler and no response is returned.
Events(rows, file) ==
    [k \in 1..Len(rows) |->
        Event(rows[k], ReadPayload(file, rows[k].payload_offset, rows[k].payload_len))]

Response(strategy, q, rows, file) ==
    LET events == Events(rows, file)
    IN  IF \E k \in 1..Len(events) : events[k].payload = DecodeError
        THEN [strategy |-> strategy, query |-> q, outcome |-> "error",
              events |-> <<>>, count |-> 0]
        ELSE [strategy |-> strategy, query |-> q, outcome |-> "ok",
              events |-> events, count |-> Len(events)]

NoResponse ==
    [strategy |-> "none",
     query |-> [from_ts |-> 0, to_ts |-> 0, actor_id |-> None, action |-> None,
                page |-> 1, page_size |-> 1],
     outcome |-> "none",
     events |-> <<>>, count |-> 0]

\* ------------------------------------------- baseline: audit_log_service
\* handle_request: LIMIT page_size OFFSET (page - 1) * page_size
BaselineRows(tbl, q) ==
    LimitOffset(Select(tbl, q), q.page_size, (q.page - 1) * q.page_size)

\* ---------------------------------- in-memory: audit_log_service_enhanced
\* init: SELECT ... FROM audit_events ORDER BY created_at DESC, id DESC
LoadIndex(tbl) == OrderBy(RowsOf(tbl))

\* Mutant: the scan stops at the first row newer than to_ts instead of skipping it.
RECURSIVE ScanIndexBreaksOnNewer(_, _, _, _)
ScanIndexBreaksOnNewer(index, q, k, matched) ==
    IF k > Len(index) THEN matched
    ELSE LET r == index[k]
         IN  IF r.created_at < q.from_ts \/ r.created_at > q.to_ts THEN matched
             ELSE IF q.actor_id # None /\ Some(r.actor_id) # q.actor_id
                  THEN ScanIndexBreaksOnNewer(index, q, k + 1, matched)
             ELSE IF q.action # None /\ Some(r.action) # q.action
                  THEN ScanIndexBreaksOnNewer(index, q, k + 1, matched)
             ELSE ScanIndexBreaksOnNewer(index, q, k + 1, Append(matched, r))

\* The scan of handle_request_for_query over _in_memory_index, from position k.
RECURSIVE ScanIndex(_, _, _, _)
ScanIndex(index, q, k, matched) ==
    IF k > Len(index) THEN matched
    ELSE LET r == index[k]
         IN  IF r.created_at < q.from_ts THEN matched
             ELSE IF r.created_at > q.to_ts THEN ScanIndex(index, q, k + 1, matched)
             ELSE IF q.actor_id # None /\ Some(r.actor_id) # q.actor_id
                  THEN ScanIndex(index, q, k + 1, matched)
             ELSE IF q.action # None /\ Some(r.action) # q.action
                  THEN ScanIndex(index, q, k + 1, matched)
             ELSE ScanIndex(index, q, k + 1, Append(matched, r))

\* Mutant: the slice takes the element at stop as well.
PySliceInclusive(s, start, stop) ==
    LET n == Len(s)
        a == IF start < 0 THEN Max(start + n, 0) ELSE Min(start, n)
        b == IF stop < 0 THEN Max(stop + n, 0) ELSE Min(stop, n)
    IN  SubSeq(s, a + 1, Min(b + 1, n))

\* matched[start : stop] as Python slices a list.
PySlice(s, start, stop) ==
    LET n == Len(s)
        a == IF start < 0 THEN Max(start + n, 0) ELSE Min(start, n)
        b == IF stop < 0 THEN Max(stop + n, 0) ELSE Min(stop, n)
    IN  SubSeq(s, a + 1, b)

IndexedRows(index, q) ==
    LET offset_rows == (q.page - 1) * q.page_size
    IN  PySlice(ScanIndex(index, q, 1, <<>>), offset_rows, offset_rows + q.page_size)

\* --------------------------------- cursor: enhanced_audit_log_service
\* Mutant: the rows after the cursor include the cursor row's identifier.
AfterCursorNotStrict(tbl, q, c) ==
    LimitOffset(
        OrderBy({r \in RowsOf(tbl) :
                    /\ Where(r, q)
                    /\ \/ r.created_at < c.created_at
                       \/ r.created_at = c.created_at /\ r.id <= c.id}),
        q.page_size, 0)

\* Step 2: the rows strictly after the cursor row, LIMIT page_size.
AfterCursor(tbl, q, c) ==
    LimitOffset(
        OrderBy({r \in RowsOf(tbl) :
                    /\ Where(r, q)
                    /\ \/ r.created_at < c.created_at
                       \/ r.created_at = c.created_at /\ r.id < c.id}),
        q.page_size, 0)

\* Mutant: a missing cursor row falls through to the first page instead of
\* returning no rows.
CursorRowsNoEmptyCheck(tbl, q) ==
    LET offset_rows == (q.page - 1) * q.page_size
        cursor_row == LimitOffset(Select(tbl, q), 1, offset_rows - 1)
    IN  IF offset_rows = 0 \/ cursor_row = <<>>
        THEN LimitOffset(Select(tbl, q), q.page_size, 0)
        ELSE AfterCursor(tbl, q, cursor_row[1])

\* _fetch_events_with_cursor, up to cur.fetchall()
CursorRows(tbl, q) ==
    LET offset_rows == (q.page - 1) * q.page_size
        cursor_row == LimitOffset(Select(tbl, q), 1, offset_rows - 1)
    IN  IF offset_rows = 0 THEN LimitOffset(Select(tbl, q), q.page_size, 0)
        ELSE IF cursor_row = <<>> THEN <<>>
        ELSE AfterCursor(tbl, q, cursor_row[1])

\* ------------------------------------------------------------------ state
VARIABLES
    dbExists,         \* os.path.exists(DB_PATH)
    tableExists,      \* audit_events has been created in the database
    table,            \* audit_events, in insertion order
    payloadFile,      \* the bytes of PAYLOAD_FILE
    base_inited,      \* audit_log_service._inited
    enh_inited,       \* audit_log_service_enhanced._inited
    in_memory_index,  \* audit_log_service_enhanced._in_memory_index
    service,          \* enhanced_audit_log_service._service: "none", "created"
                      \* (constructed, init() not finished) or "inited"
    resp,             \* what the last handler returned to the single caller
    base_lock,        \* audit_log_service._init_lock: its holder, or NoThread
    enh_lock,         \* audit_log_service_enhanced._init_lock
    svc_lock,         \* enhanced_audit_log_service._service_lock
    pc,               \* per thread: the statement it is at
    ret_b,            \* per thread: where baseline.init() returns to
    ret_e,            \* per thread: where the enhanced init() returns to
    call,             \* per thread: the request it runs (strategy, query)
    pending,          \* per thread: fetched rows whose payload is not read yet
    tevents,          \* per thread: the events list built so far
    treads,           \* per thread: the offsets it has read from the payload file
    seedCount,        \* how many times _seed_if_needed has run
    loadCount,        \* how many times the index has been loaded
    served,           \* identifiers returned by the responses delivered so far
    b_conn,           \* per thread: "open" when a connection that its baseline
                      \* handle_request opened has not been closed
    pool,             \* enhanced_audit_log_service._pool: the thread identifiers
                      \* that have a pooled connection
    c_conn,           \* per thread: the pooled connection its cursor request holds
    workers           \* how many worker threads have been started

dataVars == <<dbExists, tableExists, table, payloadFile>>
flagVars == <<base_inited, enh_inited, in_memory_index, service>>
lockVars == <<base_lock, enh_lock, svc_lock>>
threadVars == <<pc, ret_b, ret_e, call, pending, tevents, treads>>
countVars == <<seedCount, loadCount, served>>
handleVars == <<b_conn, pool, c_conn, workers>>

vars == <<dataVars, flagVars, resp, lockVars, threadVars, countVars, handleVars>>

NoThread == 0

NoCall == [strategy |-> "none", query |-> NoResponse.query]

\* A request that holds no pooled connection.
NoConn == [key |-> NoThread, open |-> FALSE]

\* _get_connection: the pool after the thread with identifier tid has asked
\* for its connection (if thread_id not in _pool: _pool[thread_id] = conn).
GetConnection(p, tid) == IF tid \notin p THEN p \cup {tid} ELSE p

\* The modules as imported: nothing initialised, no lock held, workers idle.
InitModule ==
    /\ base_inited = FALSE
    /\ enh_inited = FALSE
    /\ in_memory_index = <<>>
    /\ service = "none"
    /\ resp = NoResponse
    /\ base_lock = NoThread
    /\ enh_lock = NoThread
    /\ svc_lock = NoThread
    /\ pc = [t \in Threads |-> "idle"]
    /\ ret_b = [t \in Threads |-> "idle"]
    /\ ret_e = [t \in Threads |-> "idle"]
    /\ call = [t \in Threads |-> NoCall]
    /\ pending = [t \in Threads |-> <<>>]
    /\ tevents = [t \in Threads |-> <<>>]
    /\ treads = [t \in Threads |-> <<>>]
    /\ seedCount = 0
    /\ loadCount = 0
    /\ served = {}
    /\ b_conn = [t \in Threads |-> "none"]
    /\ pool = {}
    /\ c_conn = [t \in Threads |-> NoConn]
    /\ workers = 0

\* The storage the process finds: no database file, or a database with its
\* payload file beside it.
InitStorage(tables) ==
    /\ dbExists \in BOOLEAN
    /\ tableExists = dbExists
    /\ table \in (IF dbExists THEN tables ELSE {<<>>})
    /\ payloadFile = FileOf(Len(table))

Init == InitStorage(Tables) /\ InitModule

\* ------------------------------------------------ Spec: one caller, in order
\* The harness start-up (run_tests.main): audit_log_service.init(), which seeds
\* SEED_ROWS rows when the database file is missing, then the enhanced
\* services' init().
Startup ==
    /\ ~base_inited
    /\ \E seeded \in TablesOfSize(MaxRows) :
          /\ table' = IF dbExists THEN table ELSE seeded
          /\ payloadFile' = FileOf(Len(table'))
    /\ dbExists' = TRUE
    /\ tableExists' = TRUE
    /\ base_inited' = TRUE
    /\ in_memory_index' = LoadIndex(table')
    /\ enh_inited' = TRUE
    /\ service' = "inited"
    /\ seedCount' = seedCount + 1
    /\ loadCount' = loadCount + 1
    /\ UNCHANGED <<handleVars, resp, lockVars, threadVars, served>>

\* audit_log_service.handle_request
BaselineRequest(q) ==
    /\ base_inited
    /\ resp = NoResponse
    /\ resp' = Response("baseline", q, BaselineRows(table, q), payloadFile)
    /\ UNCHANGED <<handleVars, dataVars, flagVars, lockVars, threadVars, countVars>>

\* audit_log_service_enhanced.handle_request_for_query
IndexedRequest(q) ==
    /\ enh_inited
    /\ resp = NoResponse
    /\ resp' = Response("indexed", q, IndexedRows(in_memory_index, q), payloadFile)
    /\ UNCHANGED <<handleVars, dataVars, flagVars, lockVars, threadVars, countVars>>

\* enhanced_audit_log_service.handle_request
CursorRequest(q) ==
    /\ service = "inited"
    /\ resp = NoResponse
    /\ resp' = Response("cursor", q, CursorRows(table, q), payloadFile)
    /\ UNCHANGED <<handleVars, dataVars, flagVars, lockVars, threadVars, countVars>>

\* The caller takes the response (or the exception) and goes on to its next call.
Return ==
    /\ resp # NoResponse
    /\ resp' = NoResponse
    /\ UNCHANGED <<handleVars, dataVars, flagVars, lockVars, threadVars, countVars>>

Next ==
    \/ Startup
    \/ Return
    \/ \E q \in Queries : BaselineRequest(q)
    \/ \E q \in Queries : IndexedRequest(q)
    \/ \E q \in Queries : CursorRequest(q)

Spec == Init /\ [][Next]_vars

\* ------------------------------------- SpecConc: worker threads, interleaved
\* The table the seeding writes in SpecConc: MaxRows rows of one actor and one
\* action whose created_at alternates, so ties and both orders of id occur.
ConcTable == [i \in 1..MaxRows |-> SeedRow(i, <<1 + (i % MaxTs), 1, "UPDATE">>)]

ConcQueries ==
    {q \in Queries :
        /\ q.from_ts = 1 /\ q.to_ts = MaxTs
        /\ q.actor_id = None /\ q.action = None
        /\ q.page \in {1, 2} /\ q.page_size = MaxPageSize}

\* Damage a database can be found with: the payload file cut short inside its
\* last line, and a row whose locator points past the end of the file.
CutFile(file) == SubSeq(file, 1, Len(file) - 2)

LostLocator(tbl) == [tbl EXCEPT ![1].payload_offset = Len(FileOf(Len(tbl)))]

\* What a database found at start-up holds: the seeded rows and their payload
\* file, intact or damaged.
ConcStorages ==
    {[table |-> ConcTable, file |-> FileOf(MaxRows)],
     [table |-> ConcTable, file |-> CutFile(FileOf(MaxRows))],
     [table |-> LostLocator(ConcTable), file |-> FileOf(MaxRows)]}

InitConcStorage ==
    /\ dbExists \in BOOLEAN
    /\ tableExists = dbExists
    /\ \E s \in (IF dbExists THEN ConcStorages
                           ELSE {[table |-> <<>>, file |-> <<>>]}) :
          /\ table = s.table
          /\ payloadFile = s.file

InitConc == InitConcStorage /\ InitModule

Goto(t, label) == pc' = [pc EXCEPT ![t] = label]

\* The thread-local part of a handler that has been entered with request c.
Enter(t, c) ==
    /\ call' = [call EXCEPT ![t] = c]
    /\ pending' = [pending EXCEPT ![t] = <<>>]
    /\ tevents' = [tevents EXCEPT ![t] = <<>>]
    /\ treads' = [treads EXCEPT ![t] = <<>>]

\* A worker calls audit_log_service.init().
CallBaselineInit(t) ==
    /\ pc[t] = "idle"
    /\ Goto(t, "b_check")
    /\ ret_b' = [ret_b EXCEPT ![t] = "idle"]
    /\ UNCHANGED <<handleVars, dataVars, flagVars, resp, lockVars, ret_e, call, pending,
                   tevents, treads, countVars>>

\* A worker calls audit_log_service_enhanced.init().
CallEnhancedInit(t) ==
    /\ pc[t] = "idle"
    /\ Goto(t, "e_check")
    /\ ret_e' = [ret_e EXCEPT ![t] = "idle"]
    /\ UNCHANGED <<handleVars, dataVars, flagVars, resp, lockVars, ret_b, call, pending,
                   tevents, treads, countVars>>

\* A worker calls handle_request_for_query(q): its first statement is init().
CallIndexedRequest(t, q) ==
    /\ pc[t] = "idle"
    /\ Goto(t, "e_check")
    /\ ret_e' = [ret_e EXCEPT ![t] = "r_scan"]
    /\ Enter(t, [strategy |-> "indexed", query |-> q])
    /\ UNCHANGED <<handleVars, dataVars, flagVars, resp, lockVars, ret_b, countVars>>

\* A worker calls audit_log_service.handle_request().
CallBaselineRequest(t, q) ==
    /\ pc[t] = "idle"
    /\ Goto(t, "bl_fetch")
    /\ Enter(t, [strategy |-> "baseline", query |-> q])
    /\ UNCHANGED <<handleVars, dataVars, flagVars, resp, lockVars, ret_b, ret_e, countVars>>

\* A worker calls enhanced_audit_log_service.handle_request(q): get_service() first.
CallCursorRequest(t, q) ==
    /\ pc[t] = "idle"
    /\ Goto(t, "g_check")
    /\ Enter(t, [strategy |-> "cursor", query |-> q])
    /\ UNCHANGED <<handleVars, dataVars, flagVars, resp, lockVars, ret_b, ret_e, countVars>>

\* audit_log_service.init: if _inited: return
BInitCheck(t) ==
    /\ pc[t] = "b_check"
    /\ Goto(t, IF base_inited THEN ret_b[t] ELSE "b_lock")
    /\ UNCHANGED <<handleVars, dataVars, flagVars, resp, lockVars, ret_b, ret_e, call,
                   pending, tevents, treads, countVars>>

\* audit_log_service.init: with _init_lock
BInitLock(t) ==
    /\ pc[t] = "b_lock"
    /\ base_lock = NoThread
    /\ base_lock' = t
    /\ Goto(t, "b_check2")
    /\ UNCHANGED <<handleVars, dataVars, flagVars, resp, enh_lock, svc_lock, ret_b, ret_e,
                   call, pending, tevents, treads, countVars>>

\* Mutant: no second look at _inited once the lock is held.
BInitCheckLockedNoRecheck(t) ==
    /\ pc[t] = "b_check2"
    /\ Goto(t, "b_seed")
    /\ UNCHANGED <<handleVars, dataVars, flagVars, resp, lockVars, ret_b, ret_e, call,
                   pending, tevents, treads, countVars>>

\* audit_log_service.init: if _inited: return, inside the lock
BInitCheckLocked(t) ==
    /\ pc[t] = "b_check2"
    /\ Goto(t, IF base_inited THEN ret_b[t] ELSE "b_seed")
    /\ base_lock' = IF base_inited THEN NoThread ELSE base_lock
    /\ UNCHANGED <<handleVars, dataVars, flagVars, resp, enh_lock, svc_lock, ret_b, ret_e,
                   call, pending, tevents, treads, countVars>>

\* _seed_if_needed: connect, CREATE TABLE IF NOT EXISTS, and the seeding loop
\* when the database file was missing.
SeedIfNeeded(t) ==
    /\ pc[t] = "b_seed"
    /\ table' = IF dbExists THEN table ELSE ConcTable
    /\ payloadFile' = IF dbExists THEN payloadFile ELSE FileOf(Len(ConcTable))
    /\ dbExists' = TRUE
    /\ tableExists' = TRUE
    /\ seedCount' = seedCount + 1
    /\ Goto(t, "b_set")
    /\ UNCHANGED <<handleVars, flagVars, resp, lockVars, ret_b, ret_e, call, pending,
                   tevents, treads, loadCount, served>>

\* audit_log_service.init: _inited = True, and the lock is left
BInitSet(t) ==
    /\ pc[t] = "b_set"
    /\ base_inited' = TRUE
    /\ base_lock' = NoThread
    /\ Goto(t, ret_b[t])
    /\ UNCHANGED <<handleVars, dataVars, enh_inited, in_memory_index, service, resp,
                   enh_lock, svc_lock, ret_b, ret_e, call, pending, tevents,
                   treads, countVars>>

\* audit_log_service_enhanced.init: if _inited: return
EInitCheck(t) ==
    /\ pc[t] = "e_check"
    /\ Goto(t, IF enh_inited THEN ret_e[t] ELSE "e_lock")
    /\ UNCHANGED <<handleVars, dataVars, flagVars, resp, lockVars, ret_b, ret_e, call,
                   pending, tevents, treads, countVars>>

\* audit_log_service_enhanced.init: with _init_lock
EInitLock(t) ==
    /\ pc[t] = "e_lock"
    /\ enh_lock = NoThread
    /\ enh_lock' = t
    /\ Goto(t, "e_check2")
    /\ UNCHANGED <<handleVars, dataVars, flagVars, resp, base_lock, svc_lock, ret_b, ret_e,
                   call, pending, tevents, treads, countVars>>

\* Mutant: _inited is set as soon as the build starts, before the index is loaded.
EInitCheckLockedFlagFirst(t) ==
    /\ pc[t] = "e_check2"
    /\ Goto(t, IF enh_inited THEN ret_e[t] ELSE "b_check")
    /\ enh_lock' = IF enh_inited THEN NoThread ELSE enh_lock
    /\ ret_b' = [ret_b EXCEPT ![t] = "e_load"]
    /\ enh_inited' = TRUE
    /\ UNCHANGED <<handleVars, dataVars, base_inited, in_memory_index, service, resp,
                   base_lock, svc_lock, ret_e, call, pending, tevents, treads,
                   countVars>>

\* audit_log_service_enhanced.init: if _inited: return, inside the lock;
\* otherwise baseline.init() is called.
EInitCheckLocked(t) ==
    /\ pc[t] = "e_check2"
    /\ Goto(t, IF enh_inited THEN ret_e[t] ELSE "b_check")
    /\ enh_lock' = IF enh_inited THEN NoThread ELSE enh_lock
    /\ ret_b' = [ret_b EXCEPT ![t] = "e_load"]
    /\ UNCHANGED <<handleVars, dataVars, flagVars, resp, base_lock, svc_lock, ret_e, call,
                   pending, tevents, treads, countVars>>

\* audit_log_service_enhanced.init: _in_memory_index = cur.fetchall()
EInitLoad(t) ==
    /\ pc[t] = "e_load"
    /\ in_memory_index' = LoadIndex(table)
    /\ loadCount' = loadCount + 1
    /\ Goto(t, "e_set")
    /\ UNCHANGED <<handleVars, dataVars, base_inited, enh_inited, service, resp, lockVars,
                   ret_b, ret_e, call, pending, tevents, treads, seedCount, served>>

\* audit_log_service_enhanced.init: _inited = True, and the lock is left
EInitSet(t) ==
    /\ pc[t] = "e_set"
    /\ enh_inited' = TRUE
    /\ enh_lock' = NoThread
    /\ Goto(t, ret_e[t])
    /\ UNCHANGED <<handleVars, dataVars, base_inited, in_memory_index, service, resp,
                   base_lock, svc_lock, ret_b, ret_e, call, pending, tevents,
                   treads, countVars>>

\* handle_request_for_query: the scan of _in_memory_index and the slice
IndexedScan(t) ==
    /\ pc[t] = "r_scan"
    /\ pending' = [pending EXCEPT ![t] = IndexedRows(in_memory_index, call[t].query)]
    /\ Goto(t, "read")
    /\ UNCHANGED <<handleVars, dataVars, flagVars, resp, lockVars, ret_b, ret_e, call,
                   tevents, treads, countVars>>

\* audit_log_service.handle_request: conn = sqlite3.connect(DB_PATH), SELECT ...
\* LIMIT ? OFFSET ?, rows = cur.fetchall(), conn.close(). Without the table the
\* statement raises sqlite3.OperationalError and conn.close() is not reached.
BaselineFetch(t) ==
    /\ pc[t] = "bl_fetch"
    /\ dbExists' = TRUE
    /\ pending' = [pending EXCEPT ![t] =
                      IF tableExists THEN BaselineRows(table, call[t].query) ELSE <<>>]
    /\ b_conn' = [b_conn EXCEPT ![t] = IF tableExists THEN @ ELSE "open"]
    /\ Goto(t, IF tableExists THEN "read" ELSE "raised")
    /\ UNCHANGED <<pool, c_conn, workers, tableExists, table, payloadFile, flagVars, resp, lockVars,
                   ret_b, ret_e, call, tevents, treads, countVars>>

\* get_service: if _service is None
GetServiceCheck(t) ==
    /\ pc[t] = "g_check"
    /\ Goto(t, IF service = "none" THEN "g_lock" ELSE "c_fetch")
    /\ UNCHANGED <<handleVars, dataVars, flagVars, resp, lockVars, ret_b, ret_e, call,
                   pending, tevents, treads, countVars>>

\* get_service: with _service_lock
GetServiceLock(t) ==
    /\ pc[t] = "g_lock"
    /\ svc_lock = NoThread
    /\ svc_lock' = t
    /\ Goto(t, "g_check2")
    /\ UNCHANGED <<handleVars, dataVars, flagVars, resp, base_lock, enh_lock, ret_b, ret_e,
                   call, pending, tevents, treads, countVars>>

\* get_service: if _service is None: _service = EnhancedAuditLogService()
GetServiceCreate(t) ==
    /\ pc[t] = "g_check2"
    /\ service' = IF service = "none" THEN "created" ELSE service
    /\ svc_lock' = IF service = "none" THEN svc_lock ELSE NoThread
    /\ Goto(t, IF service = "none" THEN "g_init" ELSE "c_fetch")
    /\ UNCHANGED <<handleVars, dataVars, base_inited, enh_inited, in_memory_index, resp,
                   base_lock, enh_lock, ret_b, ret_e, call, pending, tevents,
                   treads, countVars>>

\* get_service: _service.init(), that is _ensure_tables (_get_connection,
\* CREATE TABLE IF NOT EXISTS) and _inited = True; then the lock is left.
GetServiceInit(t) ==
    /\ pc[t] = "g_init"
    /\ dbExists' = TRUE
    /\ tableExists' = TRUE
    /\ service' = "inited"
    /\ svc_lock' = NoThread
    /\ pool' = GetConnection(pool, t)
    /\ Goto(t, "c_fetch")
    /\ UNCHANGED <<b_conn, c_conn, workers, table, payloadFile, base_inited, enh_inited, in_memory_index,
                   resp, base_lock, enh_lock, ret_b, ret_e, call, pending,
                   tevents, treads, countVars>>

\* _fetch_events_with_cursor: conn = _get_connection(), under _pool_lock; the
\* connect creates the database file when it is missing.
CursorGetConn(t) ==
    /\ pc[t] = "c_fetch"
    /\ dbExists' = TRUE
    /\ pool' = GetConnection(pool, t)
    /\ c_conn' = [c_conn EXCEPT ![t] = [key |-> t, open |-> TRUE]]
    /\ Goto(t, "c_query")
    /\ UNCHANGED <<b_conn, workers, tableExists, table, payloadFile,
                   flagVars, resp, lockVars, ret_b, ret_e, call, pending, tevents,
                   treads, countVars>>

\* _fetch_events_with_cursor from conn.cursor() to cur.fetchall(); on a closed
\* connection the statement raises sqlite3.ProgrammingError, without the table
\* sqlite3.OperationalError.
CursorFetch(t) ==
    /\ pc[t] = "c_query"
    /\ LET ok == c_conn[t].open /\ tableExists
       IN  /\ pending' = [pending EXCEPT ![t] =
                             IF ok THEN CursorRows(table, call[t].query) ELSE <<>>]
           /\ Goto(t, IF ok THEN "read" ELSE "raised")
    /\ UNCHANGED <<handleVars, dbExists, tableExists, table, payloadFile, flagVars, resp, lockVars,
                   ret_b, ret_e, call, tevents, treads, countVars>>

\* Mutant: a payload already returned by an earlier response is taken from a
\* cache and the file is not read.
ReadStepCached(t) ==
    /\ pc[t] = "read"
    /\ pending[t] # <<>>
    /\ LET r == Head(pending[t])
           payload == ReadPayload(payloadFile, r.payload_offset, r.payload_len)
       IN  /\ treads' = [treads EXCEPT ![t] =
                            IF r.id \in served THEN @ ELSE Append(@, r.payload_offset)]
           /\ tevents' = [tevents EXCEPT ![t] =
                             IF payload = DecodeError THEN @
                             ELSE Append(@, Event(r, payload))]
           /\ Goto(t, IF payload = DecodeError THEN "raised" ELSE "read")
    /\ pending' = [pending EXCEPT ![t] = Tail(@)]
    /\ UNCHANGED <<handleVars, dataVars, flagVars, resp, lockVars, ret_b, ret_e,
                   call, countVars>>

\* Mutant: a row whose payload does not decode is left out of the events and
\* the loop goes on.
ReadStepSkipsBadRow(t) ==
    /\ pc[t] = "read"
    /\ pending[t] # <<>>
    /\ LET r == Head(pending[t])
           payload == ReadPayload(payloadFile, r.payload_offset, r.payload_len)
       IN  /\ treads' = [treads EXCEPT ![t] =
                            IF payload = DecodeError THEN @
                            ELSE Append(@, r.payload_offset)]
           /\ tevents' = [tevents EXCEPT ![t] =
                             IF payload = DecodeError THEN @
                             ELSE Append(@, Event(r, payload))]
           /\ Goto(t, "read")
    /\ pending' = [pending EXCEPT ![t] = Tail(@)]
    /\ UNCHANGED <<handleVars, dataVars, flagVars, resp, lockVars, ret_b, ret_e,
                   call, countVars>>

\* One turn of the payload loop: _read_payload(poff, plen) seeks, reads and
\* decodes, and the event is appended; a decode failure raises out of the
\* handler before anything is appended. The baseline and the cursor service
\* open the file for the one read and close it (with open ... as f); the
\* indexed service reads through _thread_local.payload_f, the calling thread's
\* own handle, which stays with that thread.
ReadStep(t) ==
    /\ pc[t] = "read"
    /\ pending[t] # <<>>
    /\ LET r == Head(pending[t])
           payload == ReadPayload(payloadFile, r.payload_offset, r.payload_len)
       IN  /\ treads' = [treads EXCEPT ![t] = Append(@, r.payload_offset)]
           /\ tevents' = [tevents EXCEPT ![t] =
                             IF payload = DecodeError THEN @
                             ELSE Append(@, Event(r, payload))]
           /\ Goto(t, IF payload = DecodeError THEN "raised" ELSE "read")
    /\ pending' = [pending EXCEPT ![t] = Tail(@)]
    /\ UNCHANGED <<handleVars, dataVars, flagVars, resp, lockVars, ret_b, ret_e,
                   call, countVars>>

\* The loop is over: return {"query": ..., "events": events, "count": len(events)}
Respond(t) ==
    /\ pc[t] = "read"
    /\ pending[t] = <<>>
    /\ Goto(t, "returned")
    /\ UNCHANGED <<handleVars, dataVars, flagVars, resp, lockVars, ret_b, ret_e, call,
                   pending, tevents, treads, countVars>>

\* The worker's caller takes the response, or the exception, and the worker is
\* free for its next call.
Deliver(t) ==
    /\ pc[t] \in {"returned", "raised"}
    /\ served' = IF pc[t] = "returned"
                 THEN served \cup {tevents[t][k].id : k \in 1..Len(tevents[t])}
                 ELSE served
    /\ Goto(t, "idle")
    /\ Enter(t, NoCall)
    /\ c_conn' = [c_conn EXCEPT ![t] = NoConn]
    /\ UNCHANGED <<b_conn, pool, workers, dataVars, flagVars, resp, lockVars, ret_b, ret_e, seedCount,
                   loadCount>>

\* _close_all_connections, called by a worker between its requests: under
\* _pool_lock every pooled connection is closed and the pool is cleared.
CloseAllConnections(t) ==
    /\ pc[t] = "idle"
    /\ pool # {}
    /\ pool' = {}
    /\ c_conn' = [u \in Threads |->
                     IF c_conn[u].key \in pool THEN [c_conn[u] EXCEPT !.open = FALSE]
                     ELSE c_conn[u]]
    /\ UNCHANGED <<b_conn, workers, dataVars, flagVars, resp, lockVars,
                   threadVars, countVars>>

Step(t) ==
    \/ CallBaselineInit(t)
    \/ CallEnhancedInit(t)
    \/ \E q \in ConcQueries : CallIndexedRequest(t, q)
    \/ \E q \in ConcQueries : CallBaselineRequest(t, q)
    \/ \E q \in ConcQueries : CallCursorRequest(t, q)
    \/ BInitCheck(t)
    \/ BInitLock(t)
    \/ BInitCheckLocked(t)
    \/ SeedIfNeeded(t)
    \/ BInitSet(t)
    \/ EInitCheck(t)
    \/ EInitLock(t)
    \/ EInitCheckLocked(t)
    \/ EInitLoad(t)
    \/ EInitSet(t)
    \/ IndexedScan(t)
    \/ BaselineFetch(t)
    \/ GetServiceCheck(t)
    \/ GetServiceLock(t)
    \/ GetServiceCreate(t)
    \/ GetServiceInit(t)
    \/ CursorGetConn(t)
    \/ CursorFetch(t)
    \/ CloseAllConnections(t)
    \/ ReadStep(t)
    \/ Respond(t)
    \/ Deliver(t)

NextConc == \E t \in Threads : Step(t)

SpecConc == InitConc /\ [][NextConc]_vars

\* ------------------------------- SpecPool: worker threads filling the pool
\* enhanced_audit_log_service._pool_max_size
pool_max_size == 32

\* One worker thread more than _pool_max_size.
MaxWorkers == pool_max_size + 1

\* The executor starts one more worker thread, whose identifier no running
\* thread has, and the worker's first request asks for its connection.
NewWorkerGetConnection ==
    /\ workers < MaxWorkers
    /\ workers' = workers + 1
    /\ pool' = GetConnection(pool, workers + 1)
    /\ dbExists' = TRUE
    /\ UNCHANGED <<b_conn, c_conn, tableExists, table, payloadFile, flagVars,
                   resp, lockVars, threadVars, countVars>>

\* A worker thread that is already running asks for its connection again.
WorkerGetConnection(k) ==
    /\ k \in 1..workers
    /\ pool' = GetConnection(pool, k)
    /\ UNCHANGED <<b_conn, c_conn, workers, dataVars, flagVars, resp, lockVars,
                   threadVars, countVars>>

NextPool ==
    \/ NewWorkerGetConnection
    \/ \E k \in 1..MaxWorkers : WorkerGetConnection(k)

SpecPool == InitConc /\ [][NextPool]_vars

\* ============================================================ properties
\* The reference semantics, stated by rank and not by sorting: the rows inside
\* the window that pass the filters, a row's rank being the number of such rows
\* that come before it in (created_at desc, id desc).
RefMatching(tbl, q) ==
    {r \in RowsOf(tbl) :
        /\ q.from_ts <= r.created_at
        /\ r.created_at <= q.to_ts
        /\ (q.actor_id # None => r.actor_id = q.actor_id[1])
        /\ (q.action # None => r.action = q.action[1])}

RefRank(tbl, q, r) ==
    Cardinality({s \in RefMatching(tbl, q) :
                    \/ s.created_at > r.created_at
                    \/ s.created_at = r.created_at /\ s.id > r.id})

RefOffset(q) == (q.page - 1) * q.page_size

RefPage(tbl, q) ==
    LET M == RefMatching(tbl, q)
        n == Max(0, Min(q.page_size, Cardinality(M) - RefOffset(q)))
    IN  [k \in 1..n |->
            LET r == CHOOSE x \in M : RefRank(tbl, q, x) = RefOffset(q) + k - 1
            IN  [id |-> r.id, created_at |-> r.created_at, actor_id |-> r.actor_id,
                 action |-> r.action, resource_type |-> r.resource_type,
                 resource_id |-> r.resource_id, payload |-> PayloadOf(r.id)]]

Answered(strategy) == resp.strategy = strategy /\ ValidQuery(resp.query)

\* C1: for a query with page >= 1 and page_size > 0 the page of the in-memory
\* indexed path equals the reference page (window, filters, order by created_at
\* desc then id desc, skip (page-1)*page_size, take page_size), field for field
\* and in order, which is also the page the baseline LIMIT/OFFSET query returns.
C1_IndexedEqualsReference ==
    Answered("indexed") =>
        /\ resp.outcome = "ok"
        /\ resp.events = RefPage(table, resp.query)
        /\ resp.events = Events(BaselineRows(table, resp.query), payloadFile)
        /\ resp.count = Len(resp.events)

\* A second page of the indexed path that holds a row, taken under a filter and
\* with an older row cut off by from_ts.
C1_Witness ==
    /\ Answered("indexed")
    /\ resp.query.page = 2
    /\ resp.query.actor_id # None
    /\ resp.count = 1
    /\ \E r \in RowsOf(table) : r.created_at < resp.query.from_ts

C3_InvalidQueryRejected ==
    (resp.strategy # "none" /\ ~ValidQuery(resp.query)) => resp.outcome = "InvalidQuery"

\* C6: the events of every normal response, whatever the strategy, are sorted by
\* created_at descending, ties broken by id descending.
C6_Sorted ==
    resp.outcome = "ok" =>
        \A k \in 1..(Len(resp.events) - 1) :
            \/ resp.events[k].created_at > resp.events[k + 1].created_at
            \/ /\ resp.events[k].created_at = resp.events[k + 1].created_at
               /\ resp.events[k].id > resp.events[k + 1].id

\* A cursor page of two events with the same created_at.
C6_Witness ==
    /\ resp.strategy = "cursor"
    /\ resp.outcome = "ok"
    /\ Len(resp.events) = 2
    /\ resp.events[1].created_at = resp.events[2].created_at

C8_FilterCorrect ==
    resp.outcome = "ok" =>
        \A k \in 1..Len(resp.events) :
            /\ resp.query.from_ts <= resp.events[k].created_at
            /\ resp.events[k].created_at <= resp.query.to_ts
            /\ (resp.query.actor_id # None =>
                    resp.events[k].actor_id = resp.query.actor_id[1])
            /\ (resp.query.action # None =>
                    resp.events[k].action = resp.query.action[1])

\* The indexed scan left early on a row older than from_ts, skipped a row that
\* fails the action filter, and returned an event on the boundary from_ts = to_ts.
C8_Witness ==
    /\ Answered("indexed")
    /\ resp.query.from_ts = resp.query.to_ts
    /\ resp.query.action # None
    /\ Len(resp.events) >= 1
    /\ \E r \in RowsOf(table) : r.created_at < resp.query.from_ts
    /\ \E r \in RowsOf(table) :
          r.created_at = resp.query.from_ts /\ r.action # resp.query.action[1]

\* C9: a valid query of the indexed or the cursor strategy whose offset is at or
\* past the number of matching rows returns count = 0 and no events, without an
\* error; one whose page reaches the last matching row returns exactly the
\* remaining rows.
C9_LastAndBeyond ==
    (Answered("indexed") \/ Answered("cursor")) =>
        LET M == RefMatching(table, resp.query)
            off == RefOffset(resp.query)
        IN  /\ resp.outcome = "ok"
            /\ off >= Cardinality(M) => resp.count = 0 /\ resp.events = <<>>
            /\ (off < Cardinality(M) /\ off + resp.query.page_size >= Cardinality(M)) =>
                  /\ resp.count = Cardinality(M) - off
                  /\ {resp.events[k].id : k \in 1..Len(resp.events)}
                        = {r.id : r \in {x \in M : RefRank(table, resp.query, x) >= off}}

\* The cursor strategy asked for a page that starts past the last matching row
\* of a non-empty result set.
C9_Witness ==
    /\ Answered("cursor")
    /\ RefOffset(resp.query) > Cardinality(RefMatching(table, resp.query))
    /\ Cardinality(RefMatching(table, resp.query)) >= 1
    /\ resp.count = 0

\* C4: under any interleaving of init() calls the build runs once:
\* _seed_if_needed and the load of the in-memory index each run at most once,
\* and once the completed flag is set it stays set and the index is not
\* assigned again by any later step.
C4_BuildOnce ==
    /\ [](seedCount <= 1 /\ loadCount <= 1)
    /\ [][enh_inited => (enh_inited' /\ in_memory_index' = in_memory_index)]_vars

\* A worker that passed the outer check while the build was still open now
\* holds the lock and finds the flag set, one seeding and one load behind it.
C4_Witness ==
    \E t \in Threads :
        /\ pc[t] = "e_check2"
        /\ enh_inited
        /\ seedCount = 1
        /\ loadCount = 1

InIndexedRequest(t) ==
    /\ call[t].strategy = "indexed"
    /\ pc[t] \in {"r_scan", "read", "returned", "raised"}

\* C5: a request reads _in_memory_index only after the build has completed:
\* whenever a worker is at or past the scan, and whenever the completed flag is
\* set, the index has been loaded and holds the whole table in order.
C5_NoPartialIndex ==
    /\ \A t \in Threads :
          InIndexedRequest(t) =>
              /\ enh_inited
              /\ loadCount >= 1
              /\ in_memory_index = OrderBy(RowsOf(table))
    /\ enh_inited => (loadCount >= 1 /\ in_memory_index = OrderBy(RowsOf(table)))

\* One worker scans the index of a seeded table while the other, whose request
\* arrived during the build and waited for the lock, now holds it.
C5_Witness ==
    \E t, u \in Threads :
        /\ t # u
        /\ pc[t] = "r_scan"
        /\ pc[u] = "e_check2"
        /\ ret_e[u] = "r_scan"
        /\ seedCount = 1
        /\ Len(in_memory_index) = MaxRows

\* C10: every event of a response carries a payload read from the payload file
\* during that request: the handler has done one seek+read+decode per event, at
\* the event row's locator, whether or not an earlier response returned the row.
C10_PayloadReadPerEvent ==
    \A t \in Threads :
        pc[t] \in {"read", "returned"} =>
            /\ Len(treads[t]) = Len(tevents[t])
            /\ \A k \in 1..Len(tevents[t]) :
                  /\ treads[t][k] = table[tevents[t][k].id].payload_offset
                  /\ tevents[t][k].payload = PayloadOf(tevents[t][k].id)

\* A response whose first event was already returned by an earlier response.
C10_Witness ==
    \E t \in Threads :
        /\ pc[t] = "returned"
        /\ Len(tevents[t]) >= 2
        /\ tevents[t][1].id \in served

\* The page a request is owed: the rows of the reference page, each with the
\* payload its locator yields from the payload file.
OwedRows(t) == RefPage(table, call[t].query)

PayloadAt(id) == ReadPayload(payloadFile, table[id].payload_offset, table[id].payload_len)

\* C11: a storage or payload failure aborts the request with an error: a
\* handler returns a response only when the table could be queried and every
\* row of the page was read and decoded, its events being then the whole page
\* in order; a missing table or one undecodable row leaves no response with
\* that row left out, no partial page and no empty page.
C11_FailureAborts ==
    \A t \in Threads :
        pc[t] = "returned" =>
            /\ tableExists
            /\ Len(tevents[t]) = Len(OwedRows(t))
            /\ \A k \in 1..Len(OwedRows(t)) :
                  /\ tevents[t][k].id = OwedRows(t)[k].id
                  /\ PayloadAt(OwedRows(t)[k].id) # DecodeError
                  /\ tevents[t][k].payload = PayloadAt(OwedRows(t)[k].id)

\* A request whose first row was read and whose second row's payload could not
\* be decoded has raised.
C11_Witness ==
    \E t \in Threads :
        /\ pc[t] = "raised"
        /\ Len(tevents[t]) = 1
        /\ Len(treads[t]) = 2
        /\ PayloadAt(OwedRows(t)[2].id) = DecodeError

\* A worker whose request is over: it has returned or raised, or the worker is
\* between calls.
RequestOver(t) == pc[t] \in {"returned", "raised", "idle"}

\* C12: every storage handle a request acquires is released, or handed back to
\* its worker's pool, on every exit path, the exits by an error included: once
\* a worker's request is over, no connection that the request opened is still
\* open outside the pool, and the pooled connection it held is in the pool
\* under the worker's own identifier or closed.
C12_HandlesReleased ==
    \A t \in Threads :
        RequestOver(t) =>
            /\ b_conn[t] = "none"
            /\ c_conn[t].open => c_conn[t].key = t /\ t \in pool

\* The workers that are between conn = _get_connection() and cur.fetchall() on
\* the pooled connection kept under identifier k.
UsersOf(k) == {t \in Threads : pc[t] = "c_query" /\ c_conn[t].key = k}

\* C13: no handle with handle-local position or cursor state is used by two
\* concurrent callers without a lock: in every interleaving a pooled connection
\* is in use by at most one worker at a time, and it is not closed (by
\* _close_all_connections) while a worker's request is still using it.
C13_NoSharedHandle ==
    /\ \A k \in Threads : Cardinality(UsersOf(k)) <= 1
    /\ \A t \in Threads : pc[t] = "c_query" => c_conn[t].open

\* C14: no worker obtains or uses the global service before its init() has
\* completed: whenever get_service() has returned to a worker, which then goes
\* on to _fetch_events_with_cursor, the service is initialised (_inited = True,
\* its tables ensured).
C14_InitBeforeUse ==
    \A t \in Threads :
        pc[t] \in {"c_fetch", "c_query"} => service = "inited"

\* C15: the connection pool is bounded: after any sequence of _get_connection
\* calls from any number of distinct threads it holds at most _pool_max_size
\* (32) connections, and at most one connection per thread identifier, that is
\* no more connections than threads that have asked and none under an
\* identifier that no thread has.
C15_PoolBounded ==
    /\ Cardinality(pool) <= pool_max_size
    /\ Cardinality(pool) <= workers
    /\ pool \subseteq 1..workers

====
